---- MODULE Spec2Model ----
(***************************************************************************)
(* JSON-RPC 2.0 over HTTP (package jrpc2): the server dispatcher           *)
(* Service.ServeHTTP with its response transmission Service.WriteRespose   *)
(* (src/http.go), and the client invoker Config.Call                       *)
(* (src/unnamed/part_000).                                                 *)
(*                                                                         *)
(* The server handles one request per round: ServeHTTP is split into its   *)
(* validation stages, one action per stage; a stage that fails performs    *)
(* the whole short-circuit of the code (build the error, transmit,         *)
(* return).  What the environment decides (I/O failure, hook verdicts,     *)
(* the registry's answer, the body write) is drawn in the stage that       *)
(* observes it.                                                            *)
(***************************************************************************)
EXTENDS Integers, Sequences, FiniteSets, TLC

(* ---------------------------------------------------------------- bounds *)

\* number of requests the server handles in one behaviour
MaxRequests == 2

(* ------------------------------------------------------------- constants *)

StatusOK == 200
StatusNoContent == 204
StatusBadRequest == 400
StatusInternalServerError == 500

\* JSON-RPC error codes and messages; only their distinctness matters
ParseErrorCode == "ParseErrorCode"
InvalidRequestCode == "InvalidRequestCode"
MethodNotFoundCode == "MethodNotFoundCode"
InvalidParamsCode == "InvalidParamsCode"
NotImplementedCode == "NotImplementedCode"
InvalidMethodCode == "InvalidMethodCode"

ParseErrorMessage == "Parse error"
NotImplementedMessage == "Not implemented"
InvalidMethodMessage == "Invalid method"

JSONRPCVersion == "2.0"

(* ------------------------------------------------------------ JSON values *)

\* a JSON value as the decoder sees it: its JSON type and its text
JStr(s) == [t |-> "string", v |-> s]
JNum(s) == [t |-> "number", v |-> s]
JBool == [t |-> "bool", v |-> "true"]
JObject == [t |-> "object", v |-> "{}"]
JArray == [t |-> "array", v |-> "[]"]
JNull == [t |-> "null", v |-> "null"]
JAbsent == [t |-> "absent", v |-> ""]

\* a nil *json.RawMessage / nil result
Nil == [t |-> "nil", v |-> ""]

\* a nil *ErrorObject
NilError == [Code |-> "nil", Message |-> "", Data |-> ""]

ErrorObject(code, message, data) == [Code |-> code, Message |-> message, Data |-> data]

(* ---------------------------------------------------------------- headers *)

HeaderNames == {"Content-Type", "Allow", "X-Custom"}
Unset == "<unset>"
NoHeaders == [n \in HeaderNames |-> Unset]

\* SetHeaders that keeps a value already set
SetHeaders_KeepFirst(h, m) == [n \in HeaderNames |-> IF h[n] # Unset THEN h[n] ELSE m[n]]

\* for header, value := range m { w.Header().Set(header, value) }
SetHeaders(h, m) == [n \in HeaderNames |-> IF m[n] # Unset THEN m[n] ELSE h[n]]

\* the static header configurations a Service is constructed with
StaticHeaderConfigs ==
    { NoHeaders,
      [NoHeaders EXCEPT !["X-Custom"] = "static", !["Allow"] = "static",
                        !["Content-Type"] = "static"] }

(* ------------------------------------------------------------ HTTP request *)

\* Request bodies.  An object body lists the members the decoder reads;
\* methodFirst tells which of jsonrpc and method comes first in the text,
\* which matters only when both have a type the decoder rejects.
JsonrpcMembers == {JStr("2.0"), JStr("1.0"), JNum("2"), JAbsent}
MethodMembers == {JStr("echo"), JNum("1"), JBool, JObject, JArray, JAbsent}
IDMembers == {JAbsent, JNull, JStr("ab"), JNum("7"), JBool, JObject, JArray}
ParamsMembers == {JObject}

IsStringable(x) == x.t \in {"string", "absent", "null"}

ObjectBodies ==
    { [top |-> "object", jsonrpc |-> j, method |-> m, params |-> p, id |-> i,
       methodFirst |-> o] :
         j \in JsonrpcMembers, m \in MethodMembers, p \in ParamsMembers,
         i \in IDMembers, o \in BOOLEAN }

OtherBody(top) ==
    [top |-> top, jsonrpc |-> JAbsent, method |-> JAbsent, params |-> JAbsent,
     id |-> JAbsent, methodFirst |-> FALSE]

Bodies ==
    { b \in ObjectBodies :
        b.methodFirst => (~IsStringable(b.jsonrpc) /\ ~IsStringable(b.method)) }
    \cup { OtherBody(top) : top \in {"malformed", "array", "number", "null"} }

NoBody == OtherBody("none")

Requests ==
    [proto : {"HTTP/1.1", "HTTP/1.0"}, method : {"POST", "GET"},
     ctype : BOOLEAN, body : Bodies]

NoRequest == [proto |-> "", method |-> "", ctype |-> FALSE, body |-> NoBody]

(* ------------------------------------------------------------------ decode *)

NilReqObj == [isNil |-> TRUE, Jsonrpc |-> "", Method |-> "", Params |-> Nil, ID |-> Nil]

NoErr == [type |-> "nil", Value |-> "", Field |-> ""]
SyntaxError == [type |-> "SyntaxError", Value |-> "", Field |-> ""]
UnmarshalTypeError(value, field) ==
    [type |-> "UnmarshalTypeError", Value |-> value, Field |-> field]

\* a Go string member: a JSON string is stored, null and absence leave ""
StringMember(x) == IF x.t = "string" THEN x.v ELSE ""

\* a raw member (json.RawMessage behind a pointer): null and absence leave nil
RawMember(x) == IF x.t \in {"absent", "null"} THEN Nil ELSE x

\* encoding/json: the first member (in text order) whose JSON type the Go
\* field rejects is the error Unmarshal returns
FirstTypeError(b) ==
    LET jBad == ~IsStringable(b.jsonrpc)
        mBad == ~IsStringable(b.method)
    IN  IF jBad /\ (~mBad \/ ~b.methodFirst)
          THEN UnmarshalTypeError(b.jsonrpc.t, "jsonrpc")
        ELSE IF mBad THEN UnmarshalTypeError(b.method.t, "method")
        ELSE NoErr

\* json.Unmarshal(req, &reqObj), reqObj a *RequestObject
Unmarshal(b) ==
    CASE b.top = "malformed" -> [err |-> SyntaxError, obj |-> [NilReqObj EXCEPT !.isNil = FALSE]]
      [] b.top = "null" -> [err |-> NoErr, obj |-> NilReqObj]
      [] b.top \in {"array", "number"} ->
            [err |-> UnmarshalTypeError(b.top, ""), obj |-> [NilReqObj EXCEPT !.isNil = FALSE]]
      [] OTHER ->
            [err |-> FirstTypeError(b),
             obj |-> [isNil |-> FALSE,
                      Jsonrpc |-> StringMember(b.jsonrpc),
                      Method |-> StringMember(b.method),
                      Params |-> RawMember(b.params),
                      ID |-> RawMember(b.id)]]

(* --------------------------------------------------------- response object *)

DefaultResponseObject ==
    [Jsonrpc |-> JSONRPCVersion, Result |-> Nil, Error |-> NilError, ID |-> Nil,
     statusCode |-> StatusOK, notification |-> FALSE,
     headers |-> [NoHeaders EXCEPT !["Content-Type"] = "application/json"],
     r |-> NoRequest]

\* the statuses an HTTP-level validator may choose for its failure
ValidationStatuses == {400, 405, 415}

InvalidRequestError(data) == ErrorObject(InvalidRequestCode, "Invalid Request", data)

ValidateHTTPProtocolVersion(ro, rq, st) ==
    IF rq.proto # "HTTP/1.1"
      THEN [ok |-> FALSE,
            respObj |-> [ro EXCEPT !.statusCode = st,
                                   !.Error = InvalidRequestError("protocol")]]
      ELSE [ok |-> TRUE, respObj |-> ro]

ValidateHTTPRequestMethod(ro, rq, st) ==
    IF rq.method # "POST"
      THEN [ok |-> FALSE,
            respObj |-> [ro EXCEPT !.statusCode = st,
                                   !.headers["Allow"] = "POST",
                                   !.Error = InvalidRequestError("method")]]
      ELSE [ok |-> TRUE, respObj |-> ro]

ValidateHTTPRequestHeaders(ro, rq, st) ==
    IF ~rq.ctype
      THEN [ok |-> FALSE,
            respObj |-> [ro EXCEPT !.statusCode = st,
                                   !.Error = InvalidRequestError("headers")]]
      ELSE [ok |-> TRUE, respObj |-> ro]

ValidateJSONRPCVersionNumber(ro, version) ==
    IF version # JSONRPCVersion
      THEN [ok |-> FALSE,
            respObj |-> [ro EXCEPT !.Error = InvalidRequestError("jsonrpc")]]
      ELSE [ok |-> TRUE, respObj |-> ro]

\* ConvertIDtoString: a string or a number is accepted, nil is no id at all
ConvertIDtoString(id) ==
    IF id.t \in {"nil", "string", "number"}
      THEN [str |-> id.v, err |-> NilError]
      ELSE [str |-> "", err |-> InvalidRequestError("id")]

\* the bytes of a response envelope: the transport-only fields are dropped
Marshal(ro) ==
    [jsonrpc |-> ro.Jsonrpc, result |-> ro.Result,
     hasError |-> ro.Error # NilError, error |-> ro.Error, id |-> ro.ID]

\* the verdict of a hook: nil, an error without a status, an error with one
HookResults == {"ok", "fail", "failWithStatus"}

getHTTPCodeFromHookError(hr) ==
    IF hr = "failWithStatus" THEN 403 ELSE StatusInternalServerError

\* what the method registry may answer
RegistryErrors ==
    { NilError,
      ErrorObject(MethodNotFoundCode, "Method not found", ""),
      ErrorObject(InvalidParamsCode, "Invalid params", "") }

RegistryAnswers(params) == [result : {Nil, params}, err : RegistryErrors]

(* ------------------------------------------------------------------- state *)

VARIABLES
    pc,          \* where ServeHTTP stands for the request being handled
    served,      \* requests accepted so far
    headers,     \* s.headers, the static header configuration
    r,           \* the *http.Request
    req,         \* the body bytes read from r.Body
    respObj,     \* the response object under construction
    reqObj,      \* the decoded request object
    w,           \* the http.ResponseWriter: what the handler did to it
    respHooked,  \* the byte strings the response hook was run over, with its verdicts
    reqHooked,   \* the verdicts of the request hook for this request
    convRuns,    \* runs of ConvertIDtoString for this request
    calls,       \* the invocations of the method registry for this request
    stages,      \* the stages that ran for this request, in order
    other        \* the locals of a second ServeHTTP in flight, while it does not run

vars == <<pc, served, headers, r, req, respObj, reqObj, w, respHooked,
          reqHooked, convRuns, calls, stages, other>>

\* the client invoker's state
VARIABLES
    cpc,        \* where Call stands
    ncalls,     \* calls made so far
    config,     \* the client's Config
    usedIDs,    \* identifiers genUUID has returned
    creqObj,    \* the request object of the call
    httpReq,    \* the HTTP request built for the call
    nsent,      \* HTTP requests sent during the call
    httpResp,   \* the HTTP response received
    respData,   \* the response bytes read, with how often the body was read
    crespObj,   \* the decoded response object, with how often decode ran
    ret,        \* what Call returned
    checks,     \* the checks Call made on the response, in order
    expired     \* the deadline of the call's context has passed

cvars == <<cpc, ncalls, config, usedIDs, creqObj, httpReq, nsent, httpResp,
           respData, crespObj, ret, checks, expired>>

allvars == <<vars, cvars>>

\* a fresh http.ResponseWriter
NewWriter == [header |-> NoHeaders, status |-> <<>>, sent |-> NoHeaders, writes |-> <<>>]

\* w.WriteHeader(code); the header map is sent with the first status line
WriteHeader(wr, code) ==
    [wr EXCEPT !.status = Append(@, code),
               !.sent = IF Len(wr.status) = 0 THEN wr.header ELSE @]

\* w.Write(data), which succeeds or fails
Write(wr, data, ok) == [wr EXCEPT !.writes = Append(@, [data |-> data, ok |-> ok])]

\* s.resp(respObj.r, resp): what the response hook was given, its verdict,
\* and the statuses the writer had been given when it ran
RunHook(wr, resp, hr) == [data |-> resp, verdict |-> hr, written |-> wr.status]

\* WriteRespose that writes the envelope's status before it runs the hook
WriteRespose_StatusBeforeHook(wr, hooked, ro, hr, wok) ==
    LET w1 == [wr EXCEPT !.header = SetHeaders(SetHeaders(@, headers), ro.headers)]
        resp == Marshal(ro)
        w2 == WriteHeader(w1, ro.statusCode)
        w3 == Write(w2, resp, wok)
    IN  IF ro.notification
          THEN [w |-> WriteHeader(w1, StatusNoContent), hooked |-> hooked]
        ELSE IF hr # "ok"
          THEN [w |-> WriteHeader(w2, getHTTPCodeFromHookError(hr)),
                hooked |-> Append(hooked, RunHook(w2, resp, hr))]
        ELSE [w |-> IF wok THEN w3 ELSE WriteHeader(w3, StatusInternalServerError),
              hooked |-> Append(hooked, RunHook(w2, resp, hr))]

\* WriteRespose that sets the dynamic headers first and the static ones second
WriteRespose_DynamicFirst(wr, hooked, ro, hr, wok) ==
    LET w1 == [wr EXCEPT !.header = SetHeaders(SetHeaders(@, ro.headers), headers)]
        resp == Marshal(ro)
        w2 == Write(WriteHeader(w1, ro.statusCode), resp, wok)
    IN  IF ro.notification
          THEN [w |-> WriteHeader(w1, StatusNoContent), hooked |-> hooked]
        ELSE IF hr # "ok"
          THEN [w |-> WriteHeader(w1, getHTTPCodeFromHookError(hr)),
                hooked |-> Append(hooked, RunHook(w1, resp, hr))]
        ELSE [w |-> IF wok THEN w2 ELSE WriteHeader(w2, StatusInternalServerError),
              hooked |-> Append(hooked, RunHook(w1, resp, hr))]

\* WriteRespose without its notification branch
WriteRespose_NoNotificationBranch(wr, hooked, ro, hr, wok) ==
    LET w1 == [wr EXCEPT !.header = SetHeaders(SetHeaders(@, headers), ro.headers)]
        resp == Marshal(ro)
        w2 == Write(WriteHeader(w1, ro.statusCode), resp, wok)
    IN  IF hr # "ok"
          THEN [w |-> WriteHeader(w1, getHTTPCodeFromHookError(hr)),
                hooked |-> Append(hooked, RunHook(w1, resp, hr))]
        ELSE [w |-> IF wok THEN w2 ELSE WriteHeader(w2, StatusInternalServerError),
              hooked |-> Append(hooked, RunHook(w1, resp, hr))]

\* WriteRespose(w, respObj): the writer and the response-hook log afterwards.
\* hr is the response hook's verdict and wok whether the body write succeeds.
WriteRespose(wr, hooked, ro, hr, wok) ==
    LET w1 == [wr EXCEPT !.header = SetHeaders(SetHeaders(@, headers), ro.headers)]
        resp == Marshal(ro)
        w2 == Write(WriteHeader(w1, ro.statusCode), resp, wok)
    IN  IF ro.notification
          THEN [w |-> WriteHeader(w1, StatusNoContent), hooked |-> hooked]
        ELSE IF hr # "ok"
          THEN [w |-> WriteHeader(w1, getHTTPCodeFromHookError(hr)),
                hooked |-> Append(hooked, RunHook(w1, resp, hr))]
        ELSE [w |-> IF wok THEN w2 ELSE WriteHeader(w2, StatusInternalServerError),
              hooked |-> Append(hooked, RunHook(w1, resp, hr))]

\* a short-circuit of ServeHTTP: transmit ro and return
Transmit(ro) ==
    \E hr \in HookResults, wok \in BOOLEAN :
        LET t == WriteRespose(w, respHooked, ro, hr, wok)
        IN  /\ w' = t.w
            /\ respHooked' = t.hooked
            /\ respObj' = ro
            /\ pc' = "done"

\* the locals of the ServeHTTP that runs
Locals ==
    [pc |-> pc, r |-> r, req |-> req, respObj |-> respObj, reqObj |-> reqObj, w |-> w,
     respHooked |-> respHooked, reqHooked |-> reqHooked, convRuns |-> convRuns,
     calls |-> calls, stages |-> stages]

\* the locals of a ServeHTTP that has not been called
IdleLocals ==
    [pc |-> "idle", r |-> NoRequest, req |-> NoBody, respObj |-> DefaultResponseObject,
     reqObj |-> NilReqObj, w |-> NewWriter, respHooked |-> <<>>, reqHooked |-> <<>>,
     convRuns |-> 0, calls |-> <<>>, stages |-> <<>>]

Init ==
    /\ pc = "idle"
    /\ served = 0
    /\ headers \in StaticHeaderConfigs
    /\ r = NoRequest
    /\ req = NoBody
    /\ respObj = DefaultResponseObject
    /\ reqObj = NilReqObj
    /\ w = NewWriter
    /\ respHooked = <<>>
    /\ reqHooked = <<>>
    /\ convRuns = 0
    /\ calls = <<>>
    /\ stages = <<>>
    /\ other = IdleLocals

\* the server hands a request to ServeHTTP, which creates the default
\* response object and points it at the request
BeginWith(S) ==
    /\ pc = "idle"
    /\ served < MaxRequests
    /\ served' = served + 1
    /\ \E rq \in S :
          /\ r' = rq
          /\ respObj' = [DefaultResponseObject EXCEPT !.r = rq]
    /\ pc' = "read"
    /\ UNCHANGED <<headers, req, reqObj, w, respHooked, reqHooked, convRuns,
                   calls, stages>>
    /\ UNCHANGED other
    /\ UNCHANGED cvars

Begin == BeginWith(Requests)

\* requests that differ in their ids and in their parameters
ConcurrentRequests ==
    { [proto |-> "HTTP/1.1", method |-> "POST", ctype |-> TRUE,
       body |-> [top |-> "object", jsonrpc |-> JStr("2.0"), method |-> JStr("echo"),
                 params |-> [t |-> "object", v |-> p[2]], id |-> p[1],
                 methodFirst |-> FALSE]] :
         p \in { <<JStr("ab"), "{1}">>, <<JNum("7"), "{2}">>,
                  <<JAbsent, "{3}">>, <<JObject, "{4}">> } }

\* the server hands one of these to a ServeHTTP of its own goroutine
BeginConcurrent == BeginWith(ConcurrentRequests)

\* a Switch after which both handlers work on one response object
Switch_SharedRespObj ==
    /\ other # Locals
    /\ other' = [Locals EXCEPT !.respObj = other.respObj]
    /\ pc' = other.pc
    /\ r' = other.r
    /\ req' = other.req
    /\ reqObj' = other.reqObj
    /\ w' = other.w
    /\ respHooked' = other.respHooked
    /\ reqHooked' = other.reqHooked
    /\ convRuns' = other.convRuns
    /\ calls' = other.calls
    /\ stages' = other.stages
    /\ UNCHANGED <<served, headers, respObj>>
    /\ UNCHANGED cvars

\* the scheduler suspends the ServeHTTP that runs and resumes the other one:
\* every variable ServeHTTP declares goes with its goroutine
Switch ==
    /\ other # Locals
    /\ other' = Locals
    /\ pc' = other.pc
    /\ r' = other.r
    /\ req' = other.req
    /\ respObj' = other.respObj
    /\ reqObj' = other.reqObj
    /\ w' = other.w
    /\ respHooked' = other.respHooked
    /\ reqHooked' = other.reqHooked
    /\ convRuns' = other.convRuns
    /\ calls' = other.calls
    /\ stages' = other.stages
    /\ UNCHANGED <<served, headers>>
    /\ UNCHANGED cvars

\* ServeHTTP has returned (or panicked): the round trip's state is dropped
Return ==
    /\ pc \in {"done", "panic"}
    /\ pc' = "idle"
    /\ r' = NoRequest
    /\ req' = NoBody
    /\ respObj' = DefaultResponseObject
    /\ reqObj' = NilReqObj
    /\ w' = NewWriter
    /\ respHooked' = <<>>
    /\ reqHooked' = <<>>
    /\ convRuns' = 0
    /\ calls' = <<>>
    /\ stages' = <<>>
    /\ UNCHANGED <<served, headers>>
    /\ UNCHANGED other
    /\ UNCHANGED cvars

\* ioutil.ReadAll(r.Body)
ReadBody ==
    /\ pc = "read"
    /\ stages' = Append(stages, "read")
    /\ \/ /\ req' = r.body
          /\ pc' = "reqhook"
          /\ UNCHANGED <<respObj, w, respHooked>>
       \/ /\ req' = NoBody
          /\ Transmit([respObj EXCEPT
                         !.statusCode = StatusBadRequest,
                         !.Error = ErrorObject(ParseErrorCode, ParseErrorMessage, "read error")])
    /\ UNCHANGED <<served, headers, r, reqObj, reqHooked, convRuns, calls>>
    /\ UNCHANGED other
    /\ UNCHANGED cvars

\* s.req(r, req)
\* a request hook whose failure writes its status but lets the handler go on
RequestHook_Continue ==
    /\ pc = "reqhook"
    /\ stages' = Append(stages, "reqhook")
    /\ \E hr \in HookResults :
          /\ reqHooked' = Append(reqHooked, hr)
          /\ pc' = "proto"
          /\ IF hr # "ok"
               THEN w' = WriteHeader(w, getHTTPCodeFromHookError(hr))
               ELSE UNCHANGED w
    /\ UNCHANGED <<served, headers, r, req, respObj, reqObj, respHooked, convRuns, calls>>
    /\ UNCHANGED other
    /\ UNCHANGED cvars

RequestHook ==
    /\ pc = "reqhook"
    /\ stages' = Append(stages, "reqhook")
    /\ \E hr \in HookResults :
          /\ reqHooked' = Append(reqHooked, hr)
          /\ IF hr # "ok"
               THEN /\ w' = WriteHeader(w, getHTTPCodeFromHookError(hr))
                    /\ pc' = "done"
               ELSE /\ pc' = "proto"
                    /\ UNCHANGED w
    /\ UNCHANGED <<served, headers, r, req, respObj, reqObj, respHooked, convRuns, calls>>
    /\ UNCHANGED other
    /\ UNCHANGED cvars

\* a validation stage of the HTTP request: v is the validator's outcome
HTTPStage(v, next) ==
    /\ IF ~v.ok
         THEN Transmit(v.respObj)
         ELSE /\ pc' = next
              /\ respObj' = v.respObj
              /\ UNCHANGED <<w, respHooked>>
    /\ UNCHANGED <<served, headers, r, req, reqObj, reqHooked, convRuns, calls>>
    /\ UNCHANGED other
    /\ UNCHANGED cvars

CheckProtocolVersion ==
    /\ pc = "proto"
    /\ stages' = Append(stages, "proto")
    /\ \E st \in ValidationStatuses :
          HTTPStage(ValidateHTTPProtocolVersion(respObj, r, st), "method")

\* the method check run after the header check instead of before it
CheckRequestMethod_AfterHeaders ==
    /\ pc = "method"
    /\ stages' = Append(stages, "method")
    /\ \E st \in ValidationStatuses :
          LET h == ValidateHTTPRequestHeaders(respObj, r, st)
          IN  HTTPStage(IF h.ok THEN ValidateHTTPRequestMethod(respObj, r, st) ELSE h,
                        "headers")

CheckRequestMethod ==
    /\ pc = "method"
    /\ stages' = Append(stages, "method")
    /\ \E st \in ValidationStatuses :
          HTTPStage(ValidateHTTPRequestMethod(respObj, r, st), "headers")

CheckRequestHeaders ==
    /\ pc = "headers"
    /\ stages' = Append(stages, "headers")
    /\ \E st \in ValidationStatuses :
          HTTPStage(ValidateHTTPRequestHeaders(respObj, r, st), "decode")

\* DecodeError without the batch case
DecodeError_NoBatch(err) ==
    IF err.type = "UnmarshalTypeError" /\ err.Field = "method"
      THEN ErrorObject(InvalidMethodCode, InvalidMethodMessage,
                       "method data type must be string")
    ELSE ErrorObject(ParseErrorCode, ParseErrorMessage, err.type)

\* the error object the decode stage answers a failed Unmarshal with
DecodeError(err) ==
    IF err.type = "UnmarshalTypeError" /\ err.Value = "array"
      THEN ErrorObject(NotImplementedCode, NotImplementedMessage,
                       "batch requests not supported")
    ELSE IF err.type = "UnmarshalTypeError" /\ err.Field = "method"
      THEN ErrorObject(InvalidMethodCode, InvalidMethodMessage,
                       "method data type must be string")
    ELSE ErrorObject(ParseErrorCode, ParseErrorMessage, err.type)

\* json.Unmarshal(req, &reqObj) and the classification of its failure
Decode ==
    /\ pc = "decode"
    /\ stages' = Append(stages, "decode")
    /\ LET d == Unmarshal(req)
       IN  /\ reqObj' = d.obj
           /\ IF d.err # NoErr
                THEN Transmit([respObj EXCEPT !.Error = DecodeError(d.err)])
                ELSE /\ pc' = "version"
                     /\ UNCHANGED <<respObj, w, respHooked>>
    /\ UNCHANGED <<served, headers, r, req, reqHooked, convRuns, calls>>
    /\ UNCHANGED other
    /\ UNCHANGED cvars

\* CheckVersion that notes the failure but goes on to the next stage
CheckVersion_FallThrough ==
    /\ pc = "version"
    /\ stages' = Append(stages, "version")
    /\ IF reqObj.isNil
         THEN /\ pc' = "panic"
              /\ UNCHANGED <<respObj, w, respHooked>>
         ELSE /\ pc' = "id"
              /\ respObj' = ValidateJSONRPCVersionNumber(respObj, reqObj.Jsonrpc).respObj
              /\ UNCHANGED <<w, respHooked>>
    /\ UNCHANGED <<served, headers, r, req, reqObj, reqHooked, convRuns, calls>>
    /\ UNCHANGED other
    /\ UNCHANGED cvars

\* respObj.ValidateJSONRPCVersionNumber(reqObj.Jsonrpc); reading a member of
\* a nil reqObj panics, and the handler ends without touching the writer
CheckVersion ==
    /\ pc = "version"
    /\ stages' = Append(stages, "version")
    /\ IF reqObj.isNil
         THEN /\ pc' = "panic"
              /\ UNCHANGED <<respObj, w, respHooked>>
         ELSE LET v == ValidateJSONRPCVersionNumber(respObj, reqObj.Jsonrpc)
              IN  IF ~v.ok
                    THEN Transmit(v.respObj)
                    ELSE /\ pc' = "id"
                         /\ respObj' = v.respObj
                         /\ UNCHANGED <<w, respHooked>>
    /\ UNCHANGED <<served, headers, r, req, reqObj, reqHooked, convRuns, calls>>
    /\ UNCHANGED other
    /\ UNCHANGED cvars

\* ConvertIDtoString(reqObj.ID)
\* an id stage that copies the received id into the response before it fails
ParseID_SetsID ==
    /\ pc = "id"
    /\ stages' = Append(stages, "id")
    /\ convRuns' = convRuns + 1
    /\ LET c == ConvertIDtoString(reqObj.ID)
       IN  IF c.err # NilError
             THEN Transmit([respObj EXCEPT !.Error = c.err, !.ID = reqObj.ID])
             ELSE /\ pc' = "call"
                  /\ UNCHANGED <<respObj, w, respHooked>>
    /\ UNCHANGED <<served, headers, r, req, reqObj, reqHooked, calls>>
    /\ UNCHANGED other
    /\ UNCHANGED cvars

ParseID ==
    /\ pc = "id"
    /\ stages' = Append(stages, "id")
    /\ convRuns' = convRuns + 1
    /\ LET c == ConvertIDtoString(reqObj.ID)
       IN  IF c.err # NilError
             THEN Transmit([respObj EXCEPT !.Error = c.err])
             ELSE /\ pc' = "call"
                  /\ UNCHANGED <<respObj, w, respHooked>>
    /\ UNCHANGED <<served, headers, r, req, reqObj, reqHooked, calls>>
    /\ UNCHANGED other
    /\ UNCHANGED cvars

\* SetKind that never marks a notification
SetKind_AlwaysID(ro, id) == [ro EXCEPT !.ID = id]

\* the response id or the notification flag
SetKind(ro, id) ==
    IF id # Nil THEN [ro EXCEPT !.ID = id] ELSE [ro EXCEPT !.notification = TRUE]

\* ParametersObject that leaves the id out
ParametersObject_NoID(rqo, rq) ==
    [id |-> Nil, method |-> rqo.Method, params |-> rqo.Params, r |-> rq]

\* the parameters object handed to the named method
ParametersObject(rqo, rq) ==
    [id |-> rqo.ID, method |-> rqo.Method, params |-> rqo.Params, r |-> rq]

\* the response object after s.Call answered a
AfterCall(ro, a) ==
    IF a.err # NilError
      THEN [ro EXCEPT !.Result = a.result, !.Error = a.err]
      ELSE [ro EXCEPT !.Result = a.result]

\* call kind, s.Call(reqObj.Method, paramsObj), transmission
Invoke ==
    /\ pc = "call"
    /\ stages' = Append(stages, "call")
    /\ LET paramsObj == ParametersObject(reqObj, r)
       IN  /\ calls' = Append(calls, [method |-> reqObj.Method, paramsObj |-> paramsObj])
           /\ \E a \in RegistryAnswers(reqObj.Params) :
                 Transmit(AfterCall(SetKind(respObj, reqObj.ID), a))
    /\ UNCHANGED <<served, headers, r, req, reqObj, reqHooked, convRuns>>
    /\ UNCHANGED other
    /\ UNCHANGED cvars

(* ================================================================ client *)

\* number of calls the client makes in one behaviour
MaxCalls == 2

\* strings the client compares are sequences of characters
LowerOf ==
    [c \in {"A", "B", "C", "D", "E", "F"} |->
        CASE c = "A" -> "a" [] c = "B" -> "b" [] c = "C" -> "c"
          [] c = "D" -> "d" [] c = "E" -> "e" [] OTHER -> "f"]
UpperOf ==
    [c \in {"a", "b", "c", "d", "e", "f"} |->
        CASE c = "a" -> "A" [] c = "b" -> "B" [] c = "c" -> "C"
          [] c = "d" -> "D" [] c = "e" -> "E" [] OTHER -> "F"]

Fold(c) == IF c \in DOMAIN LowerOf THEN LowerOf[c] ELSE c

\* strings.EqualFold(a, b)
EqualFold(a, b) ==
    /\ Len(a) = Len(b)
    /\ \A i \in 1..Len(a) : Fold(a[i]) = Fold(b[i])

ToUpper(a) == [i \in 1..Len(a) |-> IF a[i] \in DOMAIN UpperOf THEN UpperOf[a[i]] ELSE a[i]]

\* the identifiers genUUID can return
UUIDPool == { <<"a", "f", "1">>, <<"b", "e", "2">>, <<"c", "d", "3">>, <<"f", "a", "4">> }

Version20 == <<"2", ".", "0">>
Version10 == <<"1", ".", "0">>

ClientConfigs ==
    { [disableCompression |-> FALSE, socketPath |-> FALSE, uriOK |-> TRUE],
      [disableCompression |-> TRUE, socketPath |-> TRUE, uriOK |-> TRUE],
      [disableCompression |-> FALSE, socketPath |-> FALSE, uriOK |-> FALSE] }

ClientHeaderNames == {"Content-Encoding", "X-Real-IP", "X-Client-IP"}

\* getRequestObject(method, params), id the value genUUID returned
getRequestObject(method, params, id) ==
    [Jsonrpc |-> Version20, Method |-> method, Params |-> params, ID |-> id]

NoClientRequest == [Jsonrpc |-> <<>>, Method |-> "", Params |-> "", ID |-> <<>>]

\* the POST request with its headers
NewHTTPRequest(c, ro) ==
    [method |-> "POST",
     header |-> [n \in ClientHeaderNames |->
                   CASE n = "Content-Encoding" ->
                          IF ~c.disableCompression THEN "gzip" ELSE Unset
                     [] OTHER -> IF c.socketPath THEN "127.0.0.1" ELSE Unset],
     body |-> ro]

NoHTTPRequest ==
    [method |-> "", header |-> [n \in ClientHeaderNames |-> Unset], body |-> NoClientRequest]

\* errors Call returns
NilErr == [kind |-> "nil", cause |-> "", httpCodes |-> <<>>, rpcIDs |-> <<>>,
           versions |-> <<>>, obj |-> NilError]
NewInternalError(cause) == [NilErr EXCEPT !.kind = "InternalError", !.cause = cause]
SetHTTPStatusCodes(e, observed, expected) == [e EXCEPT !.httpCodes = <<observed, expected>>]
SetRPCIDs(e, observed, expected) == [e EXCEPT !.rpcIDs = <<observed, expected>>]
SetProtocolVersions(e, observed, expected) == [e EXCEPT !.versions = <<observed, expected>>]
RPCError(obj) == [NilErr EXCEPT !.kind = "ErrorObject", !.obj = obj]

NoReturn == [result |-> Nil, err |-> NilErr]

\* what may come back over the wire for a request with identifier id
WireIDs(id) ==
    { [t |-> "string", s |-> x] :
        x \in {id, ToUpper(id), [id EXCEPT ![1] = "0"]} \cup UUIDPool }
    \cup { [t |-> "null", s |-> <<>>], [t |-> "number", s |-> <<"7">>] }

WireEnvelopes(id) ==
    [malformed : {FALSE}, jsonrpc : {Version20, Version10, <<>>}, id : WireIDs(id),
     result : {Nil, JObject},
     error : {NilError, ErrorObject(MethodNotFoundCode, "Method not found", "")}]

MalformedEnvelope ==
    [malformed |-> TRUE, jsonrpc |-> <<>>, id |-> [t |-> "null", s |-> <<>>],
     result |-> Nil, error |-> NilError]

ResponseStatuses == {StatusOK, StatusNoContent, 503}

Responses(id) ==
    [StatusCode : ResponseStatuses, Body : WireEnvelopes(id) \cup {MalformedEnvelope}]

NoResponse == [StatusCode |-> 0, Body |-> MalformedEnvelope]

NoClientResponse == [Jsonrpc |-> <<>>, ID |-> <<>>, Result |-> Nil, Error |-> NilError]

\* json.Unmarshal(respData, respObj): ID is a Go string
UnmarshalResponse(b) ==
    IF b.malformed \/ b.id.t = "number"
      THEN [ok |-> FALSE, obj |-> NoClientResponse]
      ELSE [ok |-> TRUE,
            obj |-> [Jsonrpc |-> b.jsonrpc, ID |-> b.id.s, Result |-> b.result,
                     Error |-> b.error]]

ClientInit ==
    /\ cpc = "idle"
    /\ ncalls = 0
    /\ config \in ClientConfigs
    /\ usedIDs = {}
    /\ creqObj = NoClientRequest
    /\ httpReq = NoHTTPRequest
    /\ nsent = 0
    /\ httpResp = NoResponse
    /\ respData = [reads |-> 0, data |-> MalformedEnvelope]
    /\ crespObj = [decodes |-> 0, obj |-> NoClientResponse]
    /\ ret = NoReturn
    /\ checks = <<>>
    /\ expired = FALSE

\* Call returns (result, err)
ReturnFromCall(result, err) ==
    /\ ret' = [result |-> result, err |-> err]
    /\ cpc' = "returned"

\* Call up to the request being ready to send
CallStart ==
    /\ cpc = "idle"
    /\ ncalls < MaxCalls
    /\ ncalls' = ncalls + 1
    /\ \E id \in UUIDPool \ usedIDs, params \in {"{}", "invalid"} :
          LET ro == getRequestObject("echo", params, id)
          IN  /\ usedIDs' = usedIDs \cup {id}
              /\ creqObj' = ro
              /\ IF params = "invalid"
                   THEN /\ ReturnFromCall(Nil, NewInternalError("marshal"))
                        /\ UNCHANGED httpReq
                 ELSE IF ~config.uriOK
                   THEN /\ ReturnFromCall(Nil, NewInternalError("request"))
                        /\ UNCHANGED httpReq
                 ELSE /\ httpReq' = NewHTTPRequest(config, ro)
                      /\ cpc' = "send"
                      /\ UNCHANGED ret
    /\ UNCHANGED <<config, nsent, httpResp, respData, crespObj, checks>>
    /\ UNCHANGED expired
    /\ UNCHANGED vars

\* a Do that sends the request again after a transport failure
DoAnswered_Retry ==
    /\ cpc = "send"
    /\ nsent' = nsent + 1
    /\ \/ /\ IF nsent = 0
               THEN UNCHANGED <<cpc, ret>>
               ELSE ReturnFromCall(Nil, NewInternalError("transport"))
          /\ UNCHANGED httpResp
       \/ \E rsp \in Responses(creqObj.ID) :
             /\ httpResp' = rsp
             /\ cpc' = "status"
             /\ UNCHANGED ret
    /\ UNCHANGED <<ncalls, config, usedIDs, creqObj, httpReq, respData, crespObj, checks>>
    /\ UNCHANGED expired
    /\ UNCHANGED vars

\* ctxhttp.Do(ctx, c.httpClient, req) ends because the peer answered or
\* the transport failed
DoAnswered ==
    /\ cpc = "send"
    /\ nsent' = nsent + 1
    /\ \/ /\ ReturnFromCall(Nil, NewInternalError("transport"))
          /\ UNCHANGED httpResp
       \/ \E rsp \in Responses(creqObj.ID) :
             /\ httpResp' = rsp
             /\ cpc' = "status"
             /\ UNCHANGED ret
    /\ UNCHANGED <<ncalls, config, usedIDs, creqObj, httpReq, respData, crespObj, checks>>
    /\ UNCHANGED expired
    /\ UNCHANGED vars

\* ctxhttp.Do(ctx, c.httpClient, req) ends because ctx is done: the request
\* in flight is cancelled
DoDeadline ==
    /\ cpc = "send"
    /\ expired
    /\ nsent' = nsent + 1
    /\ ReturnFromCall(Nil, NewInternalError("deadline"))
    /\ UNCHANGED <<ncalls, config, usedIDs, creqObj, httpReq, httpResp, respData,
                   crespObj, checks>>
    /\ UNCHANGED expired
    /\ UNCHANGED vars

\* resp, err = ctxhttp.Do(ctx, c.httpClient, req)
Do == DoAnswered \/ DoDeadline

\* the timer of context.WithTimeout(context.Background(), c.timeout) fires
Expire ==
    /\ cpc \notin {"idle", "returned"}
    /\ ~expired
    /\ expired' = TRUE
    /\ UNCHANGED <<cpc, ncalls, config, usedIDs, creqObj, httpReq, nsent, httpResp,
                   respData, crespObj, ret, checks>>
    /\ UNCHANGED vars

\* CheckStatus that accepts any status
CheckStatus_AnyStatus ==
    /\ cpc = "status"
    /\ checks' = Append(checks, "status")
    /\ cpc' = "read"
    /\ UNCHANGED ret
    /\ UNCHANGED <<ncalls, config, usedIDs, creqObj, httpReq, nsent, httpResp,
                   respData, crespObj>>
    /\ UNCHANGED expired
    /\ UNCHANGED vars

\* fail when HTTP status code is different from 200
CheckStatus ==
    /\ cpc = "status"
    /\ checks' = Append(checks, "status")
    /\ IF httpResp.StatusCode # StatusOK
         THEN ReturnFromCall(Nil, SetHTTPStatusCodes(NewInternalError("none"),
                                                     httpResp.StatusCode, StatusOK))
         ELSE /\ cpc' = "read"
              /\ UNCHANGED ret
    /\ UNCHANGED <<ncalls, config, usedIDs, creqObj, httpReq, nsent, httpResp,
                   respData, crespObj>>
    /\ UNCHANGED expired
    /\ UNCHANGED vars

\* ioutil.ReadAll(resp.Body) returns the bytes or fails
ReadAnswered ==
    /\ cpc = "read"
    /\ checks' = Append(checks, "read")
    /\ \/ /\ respData' = [reads |-> respData.reads + 1, data |-> httpResp.Body]
          /\ cpc' = "decode"
          /\ UNCHANGED ret
       \/ /\ respData' = [respData EXCEPT !.reads = @ + 1]
          /\ ReturnFromCall(Nil, NewInternalError("read"))
    /\ UNCHANGED <<ncalls, config, usedIDs, creqObj, httpReq, nsent, httpResp, crespObj>>
    /\ UNCHANGED expired
    /\ UNCHANGED vars

\* ioutil.ReadAll(resp.Body) fails because ctx, which the body is bound to,
\* is done
ReadDeadline ==
    /\ cpc = "read"
    /\ expired
    /\ checks' = Append(checks, "read")
    /\ respData' = [respData EXCEPT !.reads = @ + 1]
    /\ ReturnFromCall(Nil, NewInternalError("deadline"))
    /\ UNCHANGED <<ncalls, config, usedIDs, creqObj, httpReq, nsent, httpResp, crespObj>>
    /\ UNCHANGED expired
    /\ UNCHANGED vars

\* respData, err := ioutil.ReadAll(resp.Body)
ReadResponse == ReadAnswered \/ ReadDeadline

\* json.Unmarshal(respData, respObj)
DecodeResponse ==
    /\ cpc = "decode"
    /\ checks' = Append(checks, "decode")
    /\ LET d == UnmarshalResponse(respData.data)
       IN  /\ crespObj' = [decodes |-> crespObj.decodes + 1, obj |-> d.obj]
           /\ IF ~d.ok
                THEN ReturnFromCall(Nil, NewInternalError("decode"))
                ELSE /\ cpc' = "validate"
                     /\ UNCHANGED ret
    /\ UNCHANGED <<ncalls, config, usedIDs, creqObj, httpReq, nsent, httpResp, respData>>
    /\ UNCHANGED expired
    /\ UNCHANGED vars

\* Validate without the id comparison
Validate_NoIDCheck(rq, rs) ==
    IF ~EqualFold(rq.Jsonrpc, rs.Jsonrpc)
      THEN [result |-> Nil,
            err |-> SetProtocolVersions(NewInternalError("none"), rs.Jsonrpc, rq.Jsonrpc)]
    ELSE IF rs.Error # NilError
      THEN [result |-> Nil, err |-> RPCError(rs.Error)]
    ELSE [result |-> rs.Result, err |-> NilErr]

\* Validate that compares the versions before the ids
Validate_VersionFirst(rq, rs) ==
    IF ~EqualFold(rq.Jsonrpc, rs.Jsonrpc)
      THEN [result |-> Nil,
            err |-> SetProtocolVersions(NewInternalError("none"), rs.Jsonrpc, rq.Jsonrpc)]
    ELSE IF ~EqualFold(rq.ID, rs.ID)
      THEN [result |-> Nil, err |-> SetRPCIDs(NewInternalError("none"), rs.ID, rq.ID)]
    ELSE IF rs.Error # NilError
      THEN [result |-> Nil, err |-> RPCError(rs.Error)]
    ELSE [result |-> rs.Result, err |-> NilErr]

\* Validate that returns the result without looking at the envelope's error
Validate_NoErrorCheck(rq, rs) ==
    IF ~EqualFold(rq.ID, rs.ID)
      THEN [result |-> Nil, err |-> SetRPCIDs(NewInternalError("none"), rs.ID, rq.ID)]
    ELSE IF ~EqualFold(rq.Jsonrpc, rs.Jsonrpc)
      THEN [result |-> Nil,
            err |-> SetProtocolVersions(NewInternalError("none"), rs.Jsonrpc, rq.Jsonrpc)]
    ELSE [result |-> rs.Result, err |-> NilErr]

\* what Call returns for a decoded response: ids, versions, the error
Validate(rq, rs) ==
    IF ~EqualFold(rq.ID, rs.ID)
      THEN [result |-> Nil, err |-> SetRPCIDs(NewInternalError("none"), rs.ID, rq.ID)]
    ELSE IF ~EqualFold(rq.Jsonrpc, rs.Jsonrpc)
      THEN [result |-> Nil,
            err |-> SetProtocolVersions(NewInternalError("none"), rs.Jsonrpc, rq.Jsonrpc)]
    ELSE IF rs.Error # NilError
      THEN [result |-> Nil, err |-> RPCError(rs.Error)]
    ELSE [result |-> rs.Result, err |-> NilErr]

ValidateResponse ==
    /\ cpc = "validate"
    /\ checks' = Append(checks, "validate")
    /\ LET v == Validate(creqObj, crespObj.obj)
       IN  ReturnFromCall(v.result, v.err)
    /\ UNCHANGED <<ncalls, config, usedIDs, creqObj, httpReq, nsent, httpResp,
                   respData, crespObj>>
    /\ UNCHANGED expired
    /\ UNCHANGED vars

\* the caller has the result: the round trip's state is dropped
CallDone ==
    /\ cpc = "returned"
    /\ cpc' = "idle"
    /\ creqObj' = NoClientRequest
    /\ httpReq' = NoHTTPRequest
    /\ nsent' = 0
    /\ httpResp' = NoResponse
    /\ respData' = [reads |-> 0, data |-> MalformedEnvelope]
    /\ crespObj' = [decodes |-> 0, obj |-> NoClientResponse]
    /\ ret' = NoReturn
    /\ checks' = <<>>
    /\ expired' = FALSE
    /\ UNCHANGED <<ncalls, config, usedIDs>>
    /\ UNCHANGED vars

(* ============================================================ end to end *)

\* the text of an identifier and of a version, as they stand in a JSON body
IDText ==
    [i \in UUIDPool |->
        CASE i = <<"a", "f", "1">> -> "af1" [] i = <<"b", "e", "2">> -> "be2"
          [] i = <<"c", "d", "3">> -> "cd3" [] OTHER -> "fa4"]

IDChars(v) ==
    IF \E i \in UUIDPool : IDText[i] = v
      THEN CHOOSE i \in UUIDPool : IDText[i] = v
      ELSE <<>>

VersionText(s) == IF s = Version20 THEN "2.0" ELSE IF s = Version10 THEN "1.0" ELSE ""

VersionChars(v) == IF v = "2.0" THEN Version20 ELSE IF v = "1.0" THEN Version10 ELSE <<>>

\* json.Marshal(reqObj), as the body the server reads
MarshalRequest(ro) ==
    [top |-> "object",
     jsonrpc |-> JStr(VersionText(ro.Jsonrpc)),
     method |-> JStr(ro.Method),
     params |-> [t |-> "object", v |-> ro.Params],
     id |-> JStr(IDText[ro.ID]),
     methodFirst |-> FALSE]

\* the bytes of a marshalled response object, as the client's decoder sees them
EnvelopeOnWire(data) ==
    [malformed |-> FALSE,
     jsonrpc |-> VersionChars(data.jsonrpc),
     id |-> IF data.id.t = "string" THEN [t |-> "string", s |-> IDChars(data.id.v)]
            ELSE IF data.id.t = "number" THEN [t |-> "number", s |-> <<"7">>]
            ELSE [t |-> "null", s |-> <<>>],
     result |-> data.result,
     error |-> data.error]

\* the HTTP response the client receives for what the handler did to its
\* writer: the first status written, and the body written, if any and whole
ResponseOnWire(wr) ==
    [StatusCode |-> wr.status[1],
     Body |-> IF wr.writes # <<>> /\ wr.writes[1].ok
                THEN EnvelopeOnWire(wr.writes[1].data)
                ELSE MalformedEnvelope]

\* ctxhttp.Do sends the request and the server hands it to ServeHTTP; the
\* protocol version and the content type the server sees are the transport's
\* and c.headers' doing
Deliver ==
    /\ cpc = "send"
    /\ pc = "idle"
    /\ served < MaxRequests
    /\ served' = served + 1
    /\ nsent' = nsent + 1
    /\ cpc' = "wait"
    /\ \E proto \in {"HTTP/1.1", "HTTP/1.0"}, ct \in BOOLEAN :
          LET rq == [proto |-> proto, method |-> httpReq.method, ctype |-> ct,
                     body |-> MarshalRequest(httpReq.body)]
          IN  /\ r' = rq
              /\ respObj' = [DefaultResponseObject EXCEPT !.r = rq]
    /\ pc' = "read"
    /\ UNCHANGED <<headers, req, reqObj, w, respHooked, reqHooked, convRuns,
                   calls, stages, other>>
    /\ UNCHANGED <<ncalls, config, usedIDs, creqObj, httpReq, httpResp, respData,
                   crespObj, ret, checks, expired>>

\* ServeHTTP has returned and ctxhttp.Do returns the response
Respond ==
    /\ cpc = "wait"
    /\ pc = "done"
    /\ httpResp' = ResponseOnWire(w)
    /\ cpc' = "status"
    /\ UNCHANGED <<ncalls, config, usedIDs, creqObj, httpReq, nsent, respData,
                   crespObj, ret, checks, expired>>
    /\ UNCHANGED vars

\* the caller has Call's return: the state of the round trip is dropped on
\* both sides
Finish ==
    /\ cpc = "returned"
    /\ cpc' = "idle"
    /\ creqObj' = NoClientRequest
    /\ httpReq' = NoHTTPRequest
    /\ nsent' = 0
    /\ httpResp' = NoResponse
    /\ respData' = [reads |-> 0, data |-> MalformedEnvelope]
    /\ crespObj' = [decodes |-> 0, obj |-> NoClientResponse]
    /\ ret' = NoReturn
    /\ checks' = <<>>
    /\ pc' = "idle"
    /\ r' = NoRequest
    /\ req' = NoBody
    /\ respObj' = DefaultResponseObject
    /\ reqObj' = NilReqObj
    /\ w' = NewWriter
    /\ respHooked' = <<>>
    /\ reqHooked' = <<>>
    /\ convRuns' = 0
    /\ calls' = <<>>
    /\ stages' = <<>>
    /\ expired' = FALSE
    /\ UNCHANGED <<ncalls, config, usedIDs, served, headers, other>>

(* ========================================================= specifications *)

\* the server dispatcher alone
Next ==
    \/ Begin
    \/ ReadBody
    \/ RequestHook
    \/ CheckProtocolVersion
    \/ CheckRequestMethod
    \/ CheckRequestHeaders
    \/ Decode
    \/ CheckVersion
    \/ ParseID
    \/ Invoke
    \/ Return

\* the client stands idle, with one fixed configuration
ServerInit ==
    /\ Init
    /\ ClientInit
    /\ config = [disableCompression |-> FALSE, socketPath |-> FALSE, uriOK |-> TRUE]

Spec == ServerInit /\ [][Next]_allvars

\* the client invoker alone
ClientNext ==
    \/ CallStart
    \/ Do
    \/ CheckStatus
    \/ ReadResponse
    \/ DecodeResponse
    \/ ValidateResponse
    \/ Expire
    \/ CallDone

\* the server stands idle, with no static headers
ClientOnlyInit ==
    /\ Init
    /\ ClientInit
    /\ headers = NoHeaders

ClientSpec == ClientOnlyInit /\ [][ClientNext]_allvars

\* the client with time passing: the timer fires, a done context ends the
\* send and the body read, and Call's own steps are taken; whether and when
\* the peer answers is left open
ClientFairness ==
    /\ WF_allvars(Expire)
    /\ WF_allvars(DoDeadline)
    /\ WF_allvars(ReadDeadline)
    /\ WF_allvars(CheckStatus)
    /\ WF_allvars(DecodeResponse)
    /\ WF_allvars(ValidateResponse)

LiveClientSpec == ClientOnlyInit /\ [][ClientNext]_allvars /\ ClientFairness

\* the client and the server together: each Call's request is served by
\* ServeHTTP and what ServeHTTP writes is the response Call receives
E2ENext ==
    \/ CallStart
    \/ Deliver
    \/ ReadBody
    \/ RequestHook
    \/ CheckProtocolVersion
    \/ CheckRequestMethod
    \/ CheckRequestHeaders
    \/ Decode
    \/ CheckVersion
    \/ ParseID
    \/ Invoke
    \/ Respond
    \/ CheckStatus
    \/ ReadResponse
    \/ DecodeResponse
    \/ ValidateResponse
    \/ Expire
    \/ Finish

E2ESpec == ClientOnlyInit /\ [][E2ENext]_allvars

\* two ServeHTTP in flight on one Service, interleaved at every step
ConcurrentNext ==
    \/ BeginConcurrent
    \/ ReadBody
    \/ RequestHook
    \/ CheckProtocolVersion
    \/ CheckRequestMethod
    \/ CheckRequestHeaders
    \/ Decode
    \/ CheckVersion
    \/ ParseID
    \/ Invoke
    \/ Return
    \/ Switch

ConcurrentInit ==
    /\ ServerInit
    /\ headers # NoHeaders

ConcurrentSpec == ConcurrentInit /\ [][ConcurrentNext]_allvars

(* ================================================================ claims *)

\* ---- what the claims speak about, read off the request and the writer ----

\* the request hook aborted the request with a bare status
HookAborted == reqHooked # <<>> /\ reqHooked[Len(reqHooked)] # "ok"

\* body read, request hook and HTTP validation all passed
PassedTransport ==
    /\ req # NoBody
    /\ reqHooked = <<"ok">>
    /\ r.proto = "HTTP/1.1" /\ r.method = "POST" /\ r.ctype

\* the body decodes into a request object
Decodable(b) ==
    b.top = "object" /\ b.jsonrpc.t \in {"string", "absent", "null"}
                     /\ b.method.t \in {"string", "absent", "null"}

\* the request passes every validation stage
PassesValidation ==
    /\ PassedTransport
    /\ Decodable(r.body)
    /\ r.body.jsonrpc = JStr("2.0")
    /\ r.body.id.t \in {"absent", "null", "string", "number"}

IDAbsent(b) == b.id.t \in {"absent", "null"}

\* C1 (as stated): every response whose envelope has a nil id is written as
\* HTTP 204 with zero body bytes, whatever error arose while building it.
C1_NilIdAlways204 ==
    (pc = "done" /\ ~HookAborted /\ respObj.ID = Nil)
        => (w.status = <<StatusNoContent>> /\ w.writes = <<>>)

\* C1 (amended): a response with a nil id is written as HTTP 204 with zero
\* body bytes exactly when it is a notification, whatever the registry
\* answered; a nil-id response built by a failing stage is not a
\* notification: it carries an error, goes through the response hook, and
\* its status is never 204.
C1_Notification204 ==
    (pc = "done" /\ ~HookAborted /\ respObj.ID = Nil)
        => IF respObj.notification
             THEN w.status = <<StatusNoContent>> /\ w.writes = <<>>
             ELSE /\ respObj.Error # NilError
                  /\ Len(respHooked) = 1
                  /\ w.status # <<>> /\ w.status[1] # StatusNoContent

C1_Witness ==
    /\ pc = "done" /\ respObj.ID = Nil /\ respObj.notification
    /\ respObj.Error.Code = InvalidParamsCode
    /\ w.status = <<StatusNoContent>> /\ w.writes = <<>>

\* C2: a request that passes every validation stage and has no id invokes
\* the method registry exactly once and is answered with HTTP 204 and no
\* body, whether the registry returned a result or an error; the response
\* hook does not run for it.
C2_NotificationInvokesOnce ==
    (pc = "done" /\ PassesValidation /\ IDAbsent(r.body))
        => /\ Len(calls) = 1
           /\ calls[1].method = StringMember(r.body.method)
           /\ w.status = <<StatusNoContent>>
           /\ w.writes = <<>>
           /\ respHooked = <<>>

C2_Witness ==
    /\ pc = "done" /\ PassesValidation /\ IDAbsent(r.body)
    /\ Len(calls) = 1
    /\ respObj.Error.Code = MethodNotFoundCode
    /\ w.status = <<StatusNoContent>>

\* C3: for a request that passes every validation stage and carries an id,
\* the id handed to the method registry in the parameters object and the id
\* of the response envelope (as built, as given to the response hook and as
\* written) are that request's id.
C3_IdCarried ==
    (pc = "done" /\ PassesValidation /\ ~IDAbsent(r.body))
        => /\ Len(calls) = 1
           /\ calls[1].paramsObj.id = r.body.id
           /\ respObj.ID = r.body.id
           /\ ~respObj.notification
           /\ \A i \in 1..Len(respHooked) : respHooked[i].data.id = r.body.id
           /\ \A i \in 1..Len(w.writes) : w.writes[i].data.id = r.body.id

C3_Witness ==
    /\ pc = "done" /\ PassesValidation
    /\ r.body.id = JStr("ab")
    /\ Len(w.writes) = 1 /\ w.writes[1].ok /\ w.writes[1].data.id = JStr("ab")
    /\ w.status = <<StatusOK>>

\* ---- the client ----

\* a response was received for the call
Answered == httpResp # NoResponse

\* equality of two strings up to the case of their letters
SameUpToCase(a, b) == ToUpper(a) = ToUpper(b)

\* the response body decodes into a response object
DecodableResponse(b) == ~b.malformed /\ b.id.t \in {"string", "null"}

\* C4: Call returns a result with a nil error only if the status was 200, the
\* response id equals the generated request id up to case, the response
\* version is the request's "2.0" and the envelope has no error; a response
\* that is read and decoded but whose id differs from the request id by more
\* than case makes Call fail with the id-mismatch InternalError carrying the
\* observed and the expected id.
C4_CallSucceedsOnlyIfCorrelated ==
    (cpc = "returned" /\ Answered)
        => /\ ret.err = NilErr
                => /\ httpResp.StatusCode = StatusOK
                   /\ DecodableResponse(httpResp.Body)
                   /\ SameUpToCase(httpResp.Body.id.s, creqObj.ID)
                   /\ httpResp.Body.jsonrpc = Version20
                   /\ creqObj.Jsonrpc = Version20
                   /\ httpResp.Body.error = NilError
                   /\ ret.result = httpResp.Body.result
           /\ ( /\ httpResp.StatusCode = StatusOK
                /\ respData.data = httpResp.Body
                /\ DecodableResponse(httpResp.Body)
                /\ ~SameUpToCase(httpResp.Body.id.s, creqObj.ID) )
                => /\ ret.result = Nil
                   /\ ret.err.kind = "InternalError"
                   /\ ret.err.rpcIDs = <<httpResp.Body.id.s, creqObj.ID>>
                   /\ ret.err.httpCodes = <<>> /\ ret.err.versions = <<>>

C4_Witness ==
    /\ cpc = "returned" /\ Answered
    /\ httpResp.StatusCode = StatusOK
    /\ httpResp.Body.id.t = "string"
    /\ httpResp.Body.id.s = [creqObj.ID EXCEPT ![1] = "0"]
    /\ httpResp.Body.error = NilError /\ httpResp.Body.jsonrpc = Version20
    /\ ret.err.kind = "InternalError"
    /\ ret.err.rpcIDs = <<httpResp.Body.id.s, creqObj.ID>>

\* C5: when the server answers with a status other than 200, Call returns an
\* InternalError carrying (observed status, 200); the body is never read nor
\* decoded, and no further request is sent.
C5_NonOKStatus ==
    (Answered /\ httpResp.StatusCode # StatusOK)
        => /\ respData.reads = 0
           /\ crespObj.decodes = 0
           /\ nsent = 1
           /\ cpc \in {"status", "returned"}
           /\ cpc = "returned"
                => /\ ret.result = Nil
                   /\ ret.err.kind = "InternalError"
                   /\ ret.err.httpCodes = <<httpResp.StatusCode, StatusOK>>
                   /\ ret.err.rpcIDs = <<>> /\ ret.err.versions = <<>>

C5_Witness ==
    /\ cpc = "returned" /\ Answered
    /\ httpResp.StatusCode = 503
    /\ ret.err.httpCodes = <<503, 200>>
    /\ respData.reads = 0 /\ nsent = 1

\* ---- the server's error paths ----

\* the response hook let the transmission proceed
HookAccepted == respHooked # <<>> /\ respHooked[Len(respHooked)].verdict = "ok"

\* C6: a decodable request (one that passed body read, request hook, HTTP
\* validation and decode) whose jsonrpc member is not "2.0" never reaches the
\* id coercion nor the method registry; the response built for it has status
\* 200 and an InvalidRequestError, which is what the response hook is given
\* and, when the hook lets the transmission proceed, what is written.
C6_VersionMismatch ==
    (PassedTransport /\ Decodable(r.body) /\ r.body.jsonrpc # JStr("2.0"))
        => /\ calls = <<>>
           /\ convRuns = 0
           /\ pc \in {"proto", "method", "headers", "decode", "version", "done"}
           /\ pc = "done"
                => /\ respObj.statusCode = StatusOK
                   /\ respObj.Error.Code = InvalidRequestCode
                   /\ ~respObj.notification
                   /\ Len(respHooked) = 1
                   /\ respHooked[1].data.error.Code = InvalidRequestCode
                   /\ HookAccepted
                        => /\ w.status[1] = StatusOK
                           /\ Len(w.writes) = 1
                           /\ w.writes[1].data.hasError
                           /\ w.writes[1].data.error.Code = InvalidRequestCode

C6_Witness ==
    /\ pc = "done" /\ PassedTransport /\ Decodable(r.body)
    /\ r.body.jsonrpc = JStr("1.0")
    /\ r.body.id = JStr("ab")
    /\ w.status = <<StatusOK>>
    /\ Len(w.writes) = 1 /\ w.writes[1].ok
    /\ w.writes[1].data.error.Code = InvalidRequestCode

\* C7: a body whose top-level JSON value is an array, in a request that
\* passed body read, request hook and HTTP validation, is answered with the
\* NotImplemented (batch rejected) code and not the parse error code, and
\* the method registry is not invoked.
C7_BatchRejected ==
    (PassedTransport /\ r.body.top = "array")
        => /\ calls = <<>>
           /\ pc = "done"
                => /\ respObj.Error.Code = NotImplementedCode
                   /\ respObj.Error.Code # ParseErrorCode
                   /\ Len(respHooked) = 1
                   /\ respHooked[1].data.error.Code = NotImplementedCode
                   /\ \A i \in 1..Len(w.writes) :
                         w.writes[i].data.error.Code = NotImplementedCode
                   /\ HookAccepted => Len(w.writes) = 1

C7_Witness ==
    /\ pc = "done" /\ PassedTransport /\ r.body.top = "array"
    /\ Len(w.writes) = 1 /\ w.writes[1].ok
    /\ w.writes[1].data.error.Code = NotImplementedCode
    /\ calls = <<>>

\* C8 (as stated): a JSON object whose method member is present and not a
\* string (and is the member the decoder rejects) is classified as the
\* invalid-method error, and the NotImplemented (batch) error is produced
\* only for a top-level array.
C8_MethodTypeClassified ==
    (pc = "done" /\ PassedTransport /\ r.body.top = "object"
       /\ r.body.jsonrpc.t \in {"string", "absent", "null"}
       /\ r.body.method.t \in {"number", "bool", "object", "array"})
        => /\ respObj.Error.Code = InvalidMethodCode
           /\ respObj.Error.Code # NotImplementedCode

\* C9 (as stated): whenever ServeHTTP has ended, the status header was
\* written exactly once and the body at most once.
C9_ExactlyOneResponse ==
    pc \in {"done", "panic"} => (Len(w.status) = 1 /\ Len(w.writes) <= 1)

\* the headers WriteRespose is to apply: the static ones, overridden by the
\* response's own
ExpectedHeaders ==
    [n \in HeaderNames |->
        IF respObj.headers[n] # Unset THEN respObj.headers[n] ELSE headers[n]]

\* C10 (as stated): every exit of ServeHTTP that wrote a status had the
\* static and the dynamic headers set before the status was written.
C10_HeadersOnEveryExit ==
    pc = "done" => w.sent = ExpectedHeaders

\* C10 (amended): every exit of ServeHTTP other than the request-hook
\* failure goes through WriteRespose, so the static and then the dynamic
\* headers are set before the status is written; the request-hook failure
\* writes its bare status with no header set.
C10_HeadersUnlessHookAborted ==
    pc = "done"
        => IF HookAborted
             THEN w.sent = NoHeaders /\ w.header = NoHeaders /\ Len(w.status) = 1
             ELSE w.sent = ExpectedHeaders /\ w.header = ExpectedHeaders

C10_Witness ==
    /\ pc = "done" /\ ~HookAborted
    /\ respObj.Error.Code = InvalidRequestCode
    /\ headers["Allow"] = "static"
    /\ respObj.headers["Allow"] = "POST"
    /\ w.sent["Allow"] = "POST" /\ w.sent["X-Custom"] = "static"

\* ---- result and error of a response ----

\* C11 (as stated): every response envelope written for a non-notification
\* response has exactly one of result and error populated.
C11_ExactlyOneOfResultError ==
    \A i \in 1..Len(w.writes) :
        ~((w.writes[i].data.result # Nil) <=> w.writes[i].data.hasError)

\* ---- the order of the stages ----

StageOrder ==
    <<"read", "reqhook", "proto", "method", "headers", "decode", "version", "id", "call">>

\* the stage at which the request must stop: its earliest failing stage, or
\* the registry invocation
StopsAt ==
    IF req = NoBody THEN 1
    ELSE IF reqHooked # <<"ok">> THEN 2
    ELSE IF r.proto # "HTTP/1.1" THEN 3
    ELSE IF r.method # "POST" THEN 4
    ELSE IF ~r.ctype THEN 5
    ELSE IF ~(Decodable(r.body) \/ r.body.top = "null") THEN 6
    ELSE IF r.body.top = "null" \/ r.body.jsonrpc # JStr("2.0") THEN 7
    ELSE IF r.body.id.t \notin {"absent", "null", "string", "number"} THEN 8
    ELSE 9

\* what the response says about the stage that stopped the request
OutcomeOfStage(n) ==
    CASE n = 1 -> respObj.Error.Code = ParseErrorCode /\ respObj.statusCode = StatusBadRequest
      [] n = 2 -> respObj.Error = NilError /\ w.writes = <<>>
      [] n = 3 -> respObj.Error = InvalidRequestError("protocol")
      [] n = 4 -> respObj.Error = InvalidRequestError("method")
      [] n = 5 -> respObj.Error = InvalidRequestError("headers")
      [] n = 6 -> respObj.Error.Code \in {ParseErrorCode, NotImplementedCode, InvalidMethodCode}
      [] n = 7 -> respObj.Error = InvalidRequestError("jsonrpc")
      [] n = 8 -> respObj.Error = InvalidRequestError("id")
      [] OTHER -> Len(calls) = 1

\* C13: the stages run in the order body read, request hook, HTTP protocol
\* version, HTTP method, HTTP headers, decode, JSON-RPC version, id coercion,
\* registry invocation; a request stops at its earliest failing stage, whose
\* outcome is the response's, no later stage runs, and the registry is
\* invoked only if every earlier stage succeeded.
C13_StagesInOrder ==
    /\ Len(stages) <= Len(StageOrder)
    /\ \A i \in 1..Len(stages) : stages[i] = StageOrder[i]
    /\ calls # <<>> => (PassesValidation /\ stages = StageOrder)
    /\ pc = "done" => (Len(stages) = StopsAt /\ OutcomeOfStage(StopsAt))
    /\ pc = "panic" => (Len(stages) = StopsAt /\ StopsAt = 7)

C13_Witness ==
    /\ pc = "done"
    /\ r.proto = "HTTP/1.1" /\ r.method = "GET" /\ ~r.ctype
    /\ r.body.top = "object" /\ r.body.jsonrpc = JStr("1.0") /\ r.body.id = JObject
    /\ stages = <<"read", "reqhook", "proto", "method">>
    /\ respObj.Error = InvalidRequestError("method")
    /\ calls = <<>>

\* ---- the request hook ----

\* C14: a request whose request hook failed ends with the status the hook
\* supplied (500 by default) as the only status written and with no body;
\* no validation stage, no id coercion, no registry call and no response
\* hook ran for it.  The request hook runs exactly once, right after the
\* body read, on every request whose body was read, before any validation.
C14_RequestHookAbort ==
    /\ HookAborted
          => /\ pc = "done"
             /\ w.status = <<getHTTPCodeFromHookError(reqHooked[1])>>
             /\ w.status[1] \in {StatusInternalServerError, 403}
             /\ reqHooked[1] = "fail" => w.status[1] = StatusInternalServerError
             /\ w.writes = <<>>
             /\ stages = <<"read", "reqhook">>
             /\ respObj.Error = NilError
             /\ calls = <<>> /\ convRuns = 0 /\ respHooked = <<>>
    /\ Len(reqHooked) <= 1
    /\ (reqHooked # <<>>) <=> (Len(stages) >= 2)
    /\ Len(stages) >= 2 => (stages[2] = "reqhook" /\ req # NoBody)
    /\ (pc = "done" /\ req # NoBody) => reqHooked # <<>>

C14_Witness ==
    /\ pc = "done"
    /\ reqHooked = <<"failWithStatus">>
    /\ w.status = <<403>>
    /\ r.method = "GET"
    /\ w.writes = <<>>

\* ---- the response hook ----

\* C15: a request that ended through a non-notification response had the
\* response hook run exactly once, over the serialized envelope, before any
\* status had been written.  If the hook failed, the status it supplied (500
\* by default) is the only status written, no body is written and the
\* envelope's own status is not written; if it succeeded, the envelope's
\* status is the first status written and is followed by one write of
\* exactly the bytes the hook was given.
C15_ResponseHook ==
    (pc = "done" /\ ~HookAborted /\ ~respObj.notification)
        => /\ Len(respHooked) = 1
           /\ respHooked[1].data = Marshal(respObj)
           /\ respHooked[1].written = <<>>
           /\ respHooked[1].verdict # "ok"
                => /\ w.status = <<getHTTPCodeFromHookError(respHooked[1].verdict)>>
                   /\ respHooked[1].verdict = "fail"
                         => w.status = <<StatusInternalServerError>>
                   /\ w.writes = <<>>
           /\ respHooked[1].verdict = "ok"
                => /\ w.status # <<>>
                   /\ w.status[1] = respObj.statusCode
                   /\ Len(w.writes) = 1
                   /\ w.writes[1].data = respHooked[1].data

\* witness: the hook vetoed an envelope whose own status was 400
C15_Witness ==
    /\ pc = "done" /\ ~HookAborted /\ ~respObj.notification
    /\ respObj.statusCode = StatusBadRequest
    /\ respHooked # <<>>
    /\ respHooked[1].verdict = "failWithStatus"
    /\ w.status = <<403>>
    /\ w.writes = <<>>

\* ---- an id of an unsupported type ----

\* the request reached the id stage with an id that is an object, an array
\* or a boolean, and the handler returned
UnsupportedIDAnswered ==
    /\ pc = "done"
    /\ PassedTransport /\ Decodable(r.body) /\ r.body.jsonrpc = JStr("2.0")
    /\ r.body.id \in {JBool, JObject, JArray}

\* C16 (as stated): the response to a request whose id has an unsupported
\* type carries the id value received in the request.
C16_CarriesReceivedID ==
    UnsupportedIDAnswered
        => /\ respObj.ID = r.body.id
           /\ \A i \in 1..Len(w.writes) : w.writes[i].data.id = r.body.id

\* C16 (amended): a request whose id has an unsupported type is answered by
\* an error response, not a 204 notification: the envelope has status 200
\* and the id stage's InvalidRequestError, is given to the response hook and,
\* when the hook accepts it, written as the body.  The registry is never
\* invoked.  The envelope's id is nil, not the id received.
C16_UnsupportedIDGetsNilID ==
    UnsupportedIDAnswered
        => /\ calls = <<>>
           /\ convRuns = 1
           /\ ~respObj.notification
           /\ respObj.statusCode = StatusOK
           /\ respObj.Error = InvalidRequestError("id")
           /\ respObj.ID = Nil
           /\ Len(respHooked) = 1
           /\ respHooked[1].data.hasError /\ respHooked[1].data.id = Nil
           /\ StatusNoContent \notin {w.status[i] : i \in 1..Len(w.status)}
           /\ HookAccepted
                => /\ w.status[1] = StatusOK
                   /\ Len(w.writes) = 1
                   /\ w.writes[1].data.error = InvalidRequestError("id")
                   /\ w.writes[1].data.id = Nil

C16_Witness ==
    /\ UnsupportedIDAnswered
    /\ r.body.id = JObject
    /\ w.status = <<StatusOK>>
    /\ Len(w.writes) = 1 /\ w.writes[1].ok
    /\ w.writes[1].data.id = Nil

\* ---- static headers, then dynamic headers ----

\* C19: on every path of WriteRespose (the notification path, the
\* response-hook failure and the written envelope) the headers sent with the
\* status are the static headers overlaid by the response's dynamic headers:
\* a name the response sets has the dynamic value, also when the static
\* headers set it too, and any other name has its static value.
C19_StaticThenDynamic ==
    (pc = "done" /\ ~HookAborted)
        => \A n \in HeaderNames :
              /\ respObj.headers[n] # Unset => w.sent[n] = respObj.headers[n]
              /\ respObj.headers[n] = Unset => w.sent[n] = headers[n]
              /\ w.header[n] = w.sent[n]

\* witness: a notification, with a header name set by both sets
C19_Witness ==
    /\ pc = "done" /\ respObj.notification
    /\ w.status = <<StatusNoContent>>
    /\ headers["Content-Type"] = "static"
    /\ respObj.headers["Content-Type"] \notin {Unset, "static"}
    /\ w.sent["Content-Type"] = respObj.headers["Content-Type"]
    /\ w.sent["X-Custom"] = "static"

\* ---- the order of the client's checks ----

\* Call returned after a response had arrived and its body had been read
ResponseRead ==
    cpc = "returned" /\ respData.reads = 1 /\ ret.err.cause \notin {"read", "deadline"}

\* the error of the first failing check of a response whose body is b, for
\* the request rq
FirstFailingCheck(rq, status, b) ==
    IF status # StatusOK
      THEN SetHTTPStatusCodes(NewInternalError("none"), status, StatusOK)
    ELSE IF ~UnmarshalResponse(b).ok
      THEN NewInternalError("decode")
    ELSE IF ~EqualFold(b.id.s, rq.ID)
      THEN SetRPCIDs(NewInternalError("none"), b.id.s, rq.ID)
    ELSE IF ~EqualFold(b.jsonrpc, rq.Jsonrpc)
      THEN SetProtocolVersions(NewInternalError("none"), b.jsonrpc, rq.Jsonrpc)
    ELSE IF b.error # NilError
      THEN RPCError(b.error)
    ELSE NilErr

\* C17: the client checks a received response in the order HTTP status,
\* body decode, id, protocol version, envelope error, and Call returns the
\* error of the first check that fails: an envelope's error is Call's error
\* only when the status is 200 and the id and the version both match, and
\* a response whose id and version both differ yields the id-mismatch error.
C17_FirstFailingCheck ==
    /\ \A i \in 1..Len(checks) : checks[i] = <<"status", "read", "decode", "validate">>[i]
    /\ (cpc = "returned" /\ checks # <<>> /\ httpResp.StatusCode # StatusOK)
          => /\ checks = <<"status">>
             /\ ret.err = FirstFailingCheck(creqObj, httpResp.StatusCode, httpResp.Body)
    /\ ResponseRead
          => /\ ret.err = FirstFailingCheck(creqObj, httpResp.StatusCode, httpResp.Body)
             /\ ret.err # NilErr => ret.result = Nil
    /\ (cpc = "returned" /\ ret.err.kind = "ErrorObject")
          => /\ httpResp.StatusCode = StatusOK
             /\ EqualFold(crespObj.obj.ID, creqObj.ID)
             /\ EqualFold(crespObj.obj.Jsonrpc, creqObj.Jsonrpc)
             /\ ret.err.obj = httpResp.Body.error
    /\ (ResponseRead /\ crespObj.decodes = 1 /\ UnmarshalResponse(respData.data).ok
          /\ ~EqualFold(crespObj.obj.ID, creqObj.ID))
          => /\ ret.err.rpcIDs = <<crespObj.obj.ID, creqObj.ID>>
             /\ ret.err.versions = <<>>
             /\ ret.err.kind = "InternalError"

\* witness: a 200 response with a wrong id, a wrong version and an error
C17_Witness ==
    /\ ResponseRead
    /\ httpResp.StatusCode = StatusOK
    /\ checks = <<"status", "read", "decode", "validate">>
    /\ ~EqualFold(crespObj.obj.ID, creqObj.ID)
    /\ crespObj.obj.Jsonrpc = Version10
    /\ crespObj.obj.Error # NilError
    /\ ret.err.rpcIDs = <<crespObj.obj.ID, creqObj.ID>>
    /\ ret.err.versions = <<>>

\* ---- every Call returns ----

InCall == cpc \notin {"idle", "returned"}

\* C20: every Call eventually returns, whether or not the peer ever
\* answers; it sends at most one HTTP request; a transport failure or an
\* expired deadline ends the send with an InternalError as Call's return,
\* with no second send; once the deadline has expired Call returns.
C20_CallReturns ==
    /\ InCall ~> (cpc = "returned")
    /\ (InCall /\ expired) ~> (cpc = "returned")
    /\ [](nsent <= 1)
    /\ [][(cpc = "send" /\ cpc' \notin {"send", "status"})
            => /\ cpc' = "returned"
               /\ nsent' = 1
               /\ ret'.err.kind = "InternalError"
               /\ ret'.err.cause \in {"transport", "deadline"}
               /\ ret'.result = Nil]_allvars
    /\ [][nsent' # nsent => (cpc = "send" \/ cpc' = "idle")]_allvars

\* witness: the deadline passed while the request was in flight
C20_Witness ==
    /\ cpc = "returned"
    /\ expired
    /\ nsent = 1
    /\ httpResp = NoResponse
    /\ ret.err = NewInternalError("deadline")

\* ---- error codes, end to end ----

\* the server answered the call with an error envelope, and Call returned
\* after it had received that answer whole
ErrorEnvelopeReceived ==
    /\ cpc = "returned" /\ pc = "done"
    /\ w.writes # <<>> /\ w.writes[1].ok /\ w.writes[1].data.hasError
    /\ httpResp = ResponseOnWire(w)
    /\ ret.err.cause \notin {"read", "deadline"}

\* C12 (as stated): whenever the server answers a Call with an error
\* envelope carrying code c, from a validation stage or from the registry,
\* Call returns an error whose code is c.
C12_CodesAgree ==
    ErrorEnvelopeReceived
        => /\ ret.err.kind = "ErrorObject"
           /\ ret.err.obj.Code = w.writes[1].data.error.Code

\* C12 (amended): an error the method registry returned reaches the caller
\* as Call's error, with its code; an error envelope a validation stage
\* produced does not: its id is nil and its status is the validator's, so
\* Call returns an InternalError about the status or the id instead.
C12_RegistryCodesAgree ==
    ErrorEnvelopeReceived
        => /\ calls # <<>>
                => /\ ret.err = RPCError(w.writes[1].data.error)
                   /\ ret.err.obj.Code \in {MethodNotFoundCode, InvalidParamsCode}
                   /\ ret.result = Nil
           /\ calls = <<>>
                => /\ ret.err.kind = "InternalError"
                   /\ ret.err.obj = NilError
                   /\ ret.result = Nil
                   /\ w.writes[1].data.id = Nil
                   /\ \/ ret.err.httpCodes = <<w.status[1], StatusOK>>
                      \/ ret.err.rpcIDs = <<<<>>, creqObj.ID>>

C12_Witness ==
    /\ ErrorEnvelopeReceived
    /\ calls # <<>>
    /\ w.writes[1].data.error.Code = MethodNotFoundCode
    /\ ret.err.kind = "ErrorObject"
    /\ ret.err.obj.Code = MethodNotFoundCode

\* ---- requests handled concurrently ----

\* what a handler with locals l holds and has written comes from its own
\* request and from the configuration
OwnOutcome(l) ==
    /\ l.pc # "idle" => l.respObj.r = l.r
    /\ l.req \in {NoBody, l.r.body}
    /\ l.reqObj \in {NilReqObj, Unmarshal(l.r.body).obj}
    /\ l.respObj.ID \in {Nil, RawMember(l.r.body.id)}
    /\ l.respObj.Result \in {Nil, RawMember(l.r.body.params)}
    /\ l.respObj.notification => IDAbsent(l.r.body)
    /\ \A i \in 1..Len(l.calls) :
          /\ l.calls[i].paramsObj.id = RawMember(l.r.body.id)
          /\ l.calls[i].paramsObj.params = RawMember(l.r.body.params)
          /\ l.calls[i].paramsObj.r = l.r
    /\ \A i \in 1..Len(l.respHooked) : l.respHooked[i].data = Marshal(l.respObj)
    /\ \A i \in 1..Len(l.w.writes) : l.w.writes[i].data = Marshal(l.respObj)
    /\ (l.pc = "done" /\ l.calls # <<>>)
          => /\ l.respObj.ID = RawMember(l.r.body.id)
             /\ l.respObj.notification <=> IDAbsent(l.r.body)
             /\ l.respObj.statusCode = StatusOK
    /\ (l.pc = "done" /\ l.respHooked # <<>>)
          => /\ l.w.sent = SetHeaders(headers, l.respObj.headers)
             /\ l.w.status[1] \in {l.respObj.statusCode,
                                   getHTTPCodeFromHookError(l.respHooked[1].verdict)}
    /\ (l.pc = "done" /\ l.respObj.notification) => l.w.status = <<StatusNoContent>>

\* C18: with two requests in flight and their handlers interleaved at every
\* step, no step changes the static headers, and at every moment what each
\* handler has built and written (status, headers, id, result, error,
\* notification flag) is that of its own request: no response carries the
\* id or the result of the other request.
C18_NoCrossTalk ==
    /\ [][headers' = headers]_allvars
    /\ [](OwnOutcome(Locals) /\ OwnOutcome(other))

\* witness: both handlers have answered, one with its request's id and
\* result, the other with a notification's 204
C18_Witness ==
    /\ pc = "done" /\ other.pc = "done"
    /\ r.body.id = JStr("ab") /\ other.r.body.id = JAbsent
    /\ Len(w.writes) = 1 /\ w.writes[1].data.id = JStr("ab")
    /\ w.writes[1].data.result = [t |-> "object", v |-> "{1}"]
    /\ other.w.status = <<StatusNoContent>>
    /\ Len(other.stages) = 9 /\ Len(stages) = 9

====
